---- MODULE Spec2Model ----
(***************************************************************************)
(* Model of the hangram tutoring bot: the per-user session store           *)
(* (sessions.js), the dispatcher and the four practice modes (the bot      *)
(* entry file, src/unnamed/part_001) and the audio pipeline (ai.js).       *)
(*                                                                         *)
(* Every asynchronous handler is a task that holds a reference to the      *)
(* session object it obtained from getSession and is suspended at an       *)
(* external call (generation, speech synthesis, transcription,             *)
(* evaluation, conversation).  One action is the code that runs between    *)
(* two suspension points.  Replies to the chat transport never fail and    *)
(* do not touch the session, so an await of a reply is folded into the     *)
(* neighbouring step unless a session read follows it.                     *)
(***************************************************************************)
EXTENDS Integers, Sequences, FiniteSets, TLC

\* ------------------------------------------------------------------ bounds
MaxTasks == 2      \* handlers of the dispatcher in flight at the same time
MaxEx    == 2      \* exercises the generation capability hands out
MaxObj   == 2      \* session objects ever allocated (creations and resets)
MaxCalls == 2      \* transcribeAudioFromUrl invocations in flight
MaxEvents == 3    \* events the chat transport delivers in one run
MaxTime  == 1      \* largest value of Date.now() in the audio pipeline
MaxStart == 3      \* largest total addScoreToStats is started from
MaxScores == 2     \* calls of addScoreToStats in a row
MaxShown == 505    \* largest total the progress handler is started from

TaskIds == 1..MaxTasks

AllUsers == {1, 2}
Users    == {1}

\* ------------------------------------------------------- JavaScript values
Null == "null"

NoExercise == 0

Levels == {"1", "2"}

Transcripts == {"", "annyeong"}

\* a value found in result.score: its typeof, whether Number(value) is
\* finite, and Number(value) when it is
Num(v) == [t |-> "number", fin |-> TRUE, v |-> v]

Infinite == [t |-> "number", fin |-> FALSE, v |-> 0]

Undefined == [t |-> "undefined", fin |-> FALSE, v |-> 0]

NumericString(v) == [t |-> "string", fin |-> TRUE, v |-> v]

TypeOf(x) == x.t

IsFinite(x) == x.fin

NumberOf(x) == x.v

\* the evaluation results the capability is made to return: in range, out of
\* range (negative, above 10), missing, a string, and 1e999
EvalScores == {Num(7), Num(-3), Num(11), Undefined, NumericString(8), Infinite}

Max(a, b) == IF a >= b THEN a ELSE b

Min(a, b) == IF a <= b THEN a ELSE b

\* Math.round of the fraction n / d, d > 0: the nearest integer, a half
\* going up
MathRound(n, d) == (2 * n + d) \div (2 * d)

\* ----------------------------------------------------------------- state
VARIABLES
  sessions,   \* sessions.js: userId -> session object (0: no entry)
  heap,       \* the session objects ever created, by object identity
  tasks,      \* the handlers in flight, each suspended at an external call
  nextEx,     \* number of exercises generated so far
  scored,     \* history: per mode and exercise, the scores applied for it
  outcome,    \* the reply the last finished handler step sent
  calls,      \* transcribeAudioFromUrl invocations
  files,      \* the files in the tmp directory
  clock,      \* Date.now()
  events,     \* number of events the transport has delivered
  ledger,     \* addScoreToStats on its own: the total it started from and
              \* the scores it was called with
  display     \* the last message of the progress handler

vars ==
  <<sessions, heap, tasks, nextEx, scored, outcome, calls, files, clock,
    events, ledger, display>>

botVars == <<sessions, heap, tasks, nextEx, scored, outcome>>

audioVars == <<calls, files, clock>>

createEmptySession ==
  [ level        |-> Null,
    practiceType |-> Null,
    stats        |-> [totalScore |-> 0],
    reading      |-> [state |-> "idle", exercise |-> NoExercise],
    listening    |-> [state |-> "idle", exercise |-> NoExercise],
    speaking     |-> [state |-> "idle", exercise |-> NoExercise,
                      lastTranscript |-> Null] ]

\* a handler: the event that started it, the external call it is suspended
\* at, its session object, and the locals it holds across the call; pre is
\* history: the mode's state and exercise when the start function was
\* entered, for a voice message those of speaking when it was dispatched
NoTask ==
  [ kind |-> "none", pc |-> "free", user |-> 0, sess |-> 0, mode |-> Null,
    level |-> Null, ex |-> NoExercise, tr |-> Null,
    pre |-> [state |-> "idle", exercise |-> NoExercise] ]

NoOutcome == [user |-> 0, op |-> "none", res |-> "none", score |-> Undefined]

\* an invocation of transcribeAudioFromUrl: the call it is suspended at (or
\* how it ended), the user whose voice message it works on, its timestamp
\* ts, the text it returned, and history: the scratch files it has written
NoCall ==
  [pc |-> "free", user |-> 0, ts |-> 0, text |-> << >>, oga |-> FALSE,
   mp3 |-> FALSE]

NoLedger == [start |-> 0, scores |-> << >>]

\* a message of the progress handler: kind is "no_points" or "progress";
\* total is history, the stored total the message was built from
NoDisplay ==
  [kind |-> "none", total |-> 0, score |-> 0, filled |-> 0, empty |-> 0,
   name |-> "none"]

Init ==
  /\ sessions = [u \in AllUsers |-> 0]
  /\ heap = << >>
  /\ tasks = [t \in TaskIds |-> NoTask]
  /\ nextEx = 0
  /\ scored = [m \in {"reading", "listening", "speaking"} |->
                 [e \in 1..MaxEx |-> 0]]
  /\ outcome = NoOutcome
  /\ calls = [c \in 1..MaxCalls |-> NoCall]
  /\ files = {}
  /\ clock = 0
  /\ events = 0
  /\ ledger = NoLedger
  /\ display = NoDisplay


\* ----------------------------------------------------- session store
\* getSession: the object stored for userId, created on the first lookup
\* variant: the store never finds an entry
HasSessionNever(u) == FALSE

HasSession(u) == sessions[u] # 0

CanGet(u) == HasSession(u) \/ Len(heap) < MaxObj

getSession(u) == IF HasSession(u) THEN sessions[u] ELSE Len(heap) + 1

SessionsAfterGet(u) == [sessions EXCEPT ![u] = getSession(u)]

HeapAfterGet(u) ==
  IF HasSession(u) THEN heap ELSE Append(heap, createEmptySession)

\* variant: the new object takes over the score of the one it replaces
resetSessionKeepScore(u) ==
  /\ Len(heap) < MaxObj
  /\ heap' = Append(heap,
                IF sessions[u] = 0
                  THEN createEmptySession
                  ELSE [createEmptySession EXCEPT
                          !.stats = heap[sessions[u]].stats])
  /\ sessions' = [sessions EXCEPT ![u] = Len(heap) + 1]

\* resetSession: a new object replaces the entry; the old object stays
\* alive for the handlers that hold it
resetSession(u) ==
  /\ Len(heap) < MaxObj
  /\ heap' = Append(heap, createEmptySession)
  /\ sessions' = [sessions EXCEPT ![u] = Len(heap) + 1]

\* ------------------------------------------------------- score handling
\* variant: the total is not floored at zero
addScoreNoFloor(session, score) ==
  IF ~IsFinite(score)
    THEN session
    ELSE [session EXCEPT
            !.stats.totalScore = session.stats.totalScore + NumberOf(score)]

\* variant: a negative score is not applied
addScoreNoPenalty(session, score) ==
  IF ~IsFinite(score) \/ NumberOf(score) < 0
    THEN session
    ELSE [session EXCEPT
            !.stats.totalScore = session.stats.totalScore + NumberOf(score)]

addScoreToStats(session, score) ==
  IF ~IsFinite(score)
    THEN session
    ELSE [session EXCEPT
            !.stats.totalScore = Max(0, session.stats.totalScore + NumberOf(score))]

\* variant: the score is applied without the typeof test
ApplyResultUnchecked(session, score) == addScoreToStats(session, score)

\* the call sites: if (typeof result.score === "number") addScoreToStats(...)
ApplyResult(session, score) ==
  IF TypeOf(score) = "number" THEN addScoreToStats(session, score) ELSE session

\* history: result.score was added to the total for exercise e of mode m
ScoreCounted(m, e, score) ==
  IF TypeOf(score) = "number" /\ IsFinite(score) /\ e # NoExercise
    THEN [scored EXCEPT ![m][e] = @ + 1]
    ELSE scored

\* ------------------------------------------------------------- tasks
FreeSlots == {t \in TaskIds : tasks[t].pc = "free"}

CanSpawn == FreeSlots # {}

\* a new handler takes the lowest free slot
Spawn(task) ==
  tasks' = [tasks EXCEPT
              ![CHOOSE t \in FreeSlots : \A o \in FreeSlots : t <= o] = task]

Finish(t) == tasks' = [tasks EXCEPT ![t] = NoTask]

Resume(t, task) == tasks' = [tasks EXCEPT ![t] = task]

Reply(u, op, res) ==
  outcome' = [user |-> u, op |-> op, res |-> res, score |-> Undefined]

\* the state and the exercise of a practice mode
SubState(session, mode) ==
  CASE mode = "reading"   -> session.reading
    [] mode = "listening" -> session.listening
    [] mode = "speaking"  -> [state |-> session.speaking.state,
                              exercise |-> session.speaking.exercise]
    [] OTHER              -> [state |-> "idle", exercise |-> NoExercise]

\* session.level || "1"
\* variant: the level of the session is passed on as it is
LevelOrNull(session) == session.level

LevelOrDefault(session) == IF session.level = Null THEN "1" ELSE session.level

\* the transport delivers one more event
Deliver == events < MaxEvents /\ events' = events + 1

\* ----------------------------------------------- commands without awaits
\* bot.start
Start(u) ==
  /\ resetSession(u)
  /\ Reply(u, "start", "ok")
  /\ UNCHANGED <<tasks, nextEx, scored, audioVars, ledger, display>>
  /\ Deliver

\* bot.action(LEVEL_n)
LevelSelect(u, lvl) ==
  /\ CanGet(u)
  /\ sessions' = SessionsAfterGet(u)
  /\ heap' = [HeapAfterGet(u) EXCEPT ![getSession(u)].level = lvl]
  /\ Reply(u, "level", "ok")
  /\ UNCHANGED <<tasks, nextEx, scored, audioVars, ledger, display>>
  /\ Deliver

\* bot.hears(CHANGE_LEVEL_TEXT)
ChangeLevel(u) ==
  /\ CanGet(u)
  /\ sessions' = SessionsAfterGet(u)
  /\ heap' = [HeapAfterGet(u) EXCEPT ![getSession(u)].level = Null]
  /\ Reply(u, "changeLevel", "ok")
  /\ UNCHANGED <<tasks, nextEx, scored, audioVars, ledger, display>>
  /\ Deliver

\* bot.hears(CHANGE_MODE_TEXT)
ChangeModeText(u) ==
  /\ CanGet(u)
  /\ sessions' = SessionsAfterGet(u)
  /\ heap' = HeapAfterGet(u)
  /\ Reply(u, "changeMode",
           IF HeapAfterGet(u)[getSession(u)].level = Null
             THEN "choose_level" ELSE "ok")
  /\ UNCHANGED <<tasks, nextEx, scored, audioVars, ledger, display>>
  /\ Deliver

\* bot.action(CHANGE_MODE_INLINE)
ChangeModeInline(u) ==
  /\ CanGet(u)
  /\ sessions' = SessionsAfterGet(u)
  /\ heap' = [HeapAfterGet(u) EXCEPT ![getSession(u)].practiceType = Null]
  /\ Reply(u, "changeModeInline", "ok")
  /\ UNCHANGED <<tasks, nextEx, scored, audioVars, ledger, display>>
  /\ Deliver

\* ------------------------------------------------- mode selection
ExerciseModes == {"reading", "listening", "speaking"}

PracticeTypes == ExerciseModes \cup {"free"}

StartOp(mode) ==
  CASE mode = "reading"   -> "startReadingExercise"
    [] mode = "listening" -> "startListeningExercise"
    [] mode = "speaking"  -> "startSpeakingExercise"
    [] OTHER              -> "startFreeChat"

\* variant: selecting a mode also sets the other modes' states to idle
SetPracticeTypeResetOthers(session, type) ==
  [session EXCEPT
     !.practiceType = type,
     !.reading.state = IF type = "reading" THEN @ ELSE "idle",
     !.listening.state = IF type = "listening" THEN @ ELSE "idle",
     !.speaking.state = IF type = "speaking" THEN @ ELSE "idle"]

\* variant: the selected type is not stored
SetPracticeTypeNot(session, type) == session

\* session.practiceType = type
SetPracticeType(session, type) == [session EXCEPT !.practiceType = type]

\* the first lines of handlePracticeChoice and of READING_NEXT,
\* LISTENING_NEXT, SPEAKING_NEXT: the type is stored, then the handler
\* awaits the transport before it calls the mode's start function
SelectMode(u, kind, type) ==
  /\ CanGet(u)
  /\ CanSpawn
  /\ sessions' = SessionsAfterGet(u)
  /\ heap' = [HeapAfterGet(u) EXCEPT ![getSession(u)] =
                SetPracticeType(@, type)]
  /\ Spawn([NoTask EXCEPT !.kind = kind, !.pc = "start", !.user = u,
                          !.sess = getSession(u), !.mode = type])
  /\ UNCHANGED <<nextEx, scored, outcome, audioVars, ledger, display>>
  /\ Deliver

\* bot.action(PRACTICE_*) -> handlePracticeChoice(ctx, type)
PracticeChoice(u, type) ==
  /\ type \in PracticeTypes
  /\ SelectMode(u, "select", type)

\* bot.action(READING_NEXT | LISTENING_NEXT | SPEAKING_NEXT)
NextExercise(u, mode) ==
  /\ mode \in ExerciseModes
  /\ SelectMode(u, "select", mode)

\* variant: a handler looks its session up in the store at every step
SessionLookedUp(task) == sessions[task.user]

\* the session object a handler works on: the one getSession returned when
\* the event arrived, held in the local variable session
SessionOf(task) == task.sess

\* variant: the text handler has no try block around its requests
OnErrorTextUncaught(task) ==
  IF task.kind = "text" THEN "uncaught" ELSE "failure"

\* where an error thrown at an await of a handler goes: every request of
\* the handlers is awaited inside a try block whose catch logs and replies
OnError(task) == "failure"

\* start*Exercise / startFreeChat up to the request: the level is read from
\* the session and the request is sent
StartExercise(t) ==
  /\ tasks[t].pc = "start"
  /\ Resume(t, [tasks[t] EXCEPT !.pc = IF tasks[t].mode = "free" THEN "chat" ELSE "gen",
                         !.level = LevelOrDefault(heap[SessionOf(tasks[t])]),
                         !.pre = SubState(heap[SessionOf(tasks[t])], tasks[t].mode)])
  /\ UNCHANGED <<sessions, heap, nextEx, scored, outcome, audioVars, ledger, display, events>>

\* the assignments after a successful generation
StoreExercise(session, mode, exercise) ==
  CASE mode = "reading" ->
         [session EXCEPT !.reading.state = "waiting_for_answers",
                         !.reading.exercise = exercise]
    [] mode = "listening" ->
         [session EXCEPT !.listening.state = "waiting_for_answers",
                         !.listening.exercise = exercise]
    [] mode = "speaking" ->
         [session EXCEPT !.speaking.state = "waiting_for_voice",
                         !.speaking.exercise = exercise,
                         !.speaking.lastTranscript = Null]

\* the catch blocks of the start functions: a log line and a reply
OnStartError(session, mode) == session

\* generateReadingExercise / generateSpeakingExercise returned an exercise
GenOk(t) ==
  /\ tasks[t].pc = "gen"
  /\ nextEx < MaxEx
  /\ nextEx' = nextEx + 1
  /\ heap' = [heap EXCEPT ![SessionOf(tasks[t])] =
                StoreExercise(@, tasks[t].mode, nextEx + 1)]
  /\ IF tasks[t].mode = "listening"
       THEN /\ Resume(t, [tasks[t] EXCEPT !.pc = "tts", !.ex = nextEx + 1])
            /\ UNCHANGED outcome
       ELSE /\ Finish(t)
            /\ Reply(tasks[t].user, StartOp(tasks[t].mode), "ok")
  /\ UNCHANGED <<sessions, scored, audioVars, ledger, display, events>>

\* the generation answered with JSON that parses to null: the start function
\* stores it as the exercise and sets the state, then reading a property of
\* the exercise throws and the catch block reports the failure
GenNull(t) ==
  /\ tasks[t].pc = "gen"
  /\ heap' = [heap EXCEPT ![SessionOf(tasks[t])] =
                OnStartError(StoreExercise(@, tasks[t].mode, NoExercise),
                             tasks[t].mode)]
  /\ Finish(t)
  /\ Reply(tasks[t].user, StartOp(tasks[t].mode), OnError(tasks[t]))
  /\ UNCHANGED <<sessions, nextEx, scored, audioVars, ledger, display, events>>

\* the generation request failed or its answer was not JSON
GenFail(t) ==
  /\ tasks[t].pc = "gen"
  /\ heap' = [heap EXCEPT ![SessionOf(tasks[t])] = OnStartError(@, tasks[t].mode)]
  /\ Finish(t)
  /\ Reply(tasks[t].user, StartOp(tasks[t].mode), OnError(tasks[t]))
  /\ UNCHANGED <<sessions, nextEx, scored, audioVars, ledger, display, events>>

\* ttsFromKoreanText returned: the audio and the questions are sent
TtsOk(t) ==
  /\ tasks[t].pc = "tts"
  /\ Finish(t)
  /\ Reply(tasks[t].user, StartOp(tasks[t].mode), "ok")
  /\ UNCHANGED <<sessions, heap, nextEx, scored, audioVars, ledger, display, events>>

\* ttsFromKoreanText threw: the catch block of startListeningExercise
TtsFail(t) ==
  /\ tasks[t].pc = "tts"
  /\ heap' = [heap EXCEPT ![SessionOf(tasks[t])] = OnStartError(@, tasks[t].mode)]
  /\ Finish(t)
  /\ Reply(tasks[t].user, StartOp(tasks[t].mode), OnError(tasks[t]))
  /\ UNCHANGED <<sessions, nextEx, scored, audioVars, ledger, display, events>>

\* variant: a reply of the conversation ends the exercises in progress
OnChatReplyEndsExercises(session) ==
  [session EXCEPT !.reading.state = "idle", !.listening.state = "idle",
                  !.speaking.state = "idle", !.speaking.lastTranscript = Null]

\* what startFreeChat and handleFreeChatMessage do to the session after
\* generateFreeChatReply returned or threw: nothing, they build a message
OnChatReply(session) == session

\* generateFreeChatReply returned or threw: startFreeChat and
\* handleFreeChatMessage only reply
ChatDone(t) ==
  /\ tasks[t].pc = "chat"
  /\ heap' = [heap EXCEPT ![SessionOf(tasks[t])] = OnChatReply(@)]
  /\ Finish(t)
  /\ \E res \in {"ok", OnError(tasks[t])} :
       Reply(tasks[t].user,
             IF tasks[t].kind = "select" THEN "startFreeChat"
                                           ELSE "handleFreeChatMessage", res)
  /\ UNCHANGED <<sessions, nextEx, scored, audioVars, ledger, display, events>>

\* ---------------------------------------------------- text messages
AnswerOp(mode) ==
  CASE mode = "reading"   -> "handleReadingAnswers"
    [] mode = "listening" -> "handleListeningAnswers"
    [] OTHER              -> "voice"

\* variant: the answers go to a mode that waits, whatever the practice type
TextRouteByState(session) ==
  IF session.practiceType = "free" THEN "free"
  ELSE IF session.reading.state = "waiting_for_answers" THEN "reading"
  ELSE IF session.listening.state = "waiting_for_answers" THEN "listening"
  ELSE IF session.practiceType = "speaking"
          /\ session.speaking.state = "waiting_for_voice" THEN "reminder"
  ELSE "next"

\* the chain of tests of bot.on("text"), in the order of the code
TextRoute(session) ==
  IF session.practiceType = "free" THEN "free"
  ELSE IF session.practiceType = "reading"
          /\ session.reading.state = "waiting_for_answers" THEN "reading"
  ELSE IF session.practiceType = "listening"
          /\ session.listening.state = "waiting_for_answers" THEN "listening"
  ELSE IF session.practiceType = "speaking"
          /\ session.speaking.state = "waiting_for_voice" THEN "reminder"
  ELSE "next"

\* variant: the guard of the answer handlers sets the mode's state to idle
OnNoExerciseIdle(session, mode) ==
  CASE mode = "reading"   -> [session EXCEPT !.reading.state = "idle"]
    [] mode = "listening" -> [session EXCEPT !.listening.state = "idle"]

\* if (!session.reading.exercise) in handleReadingAnswers and
\* handleListeningAnswers: a reply, then return
OnNoExercise(session, mode) == session

\* bot.on("text") for a text that is none of the menu commands, up to the
\* first await of the function it forwards to: the conversation request, or
\* in the answer handlers the reply that the answers are being checked
Text(u) ==
  /\ CanGet(u)
  /\ sessions' = SessionsAfterGet(u)
  /\ heap' = [HeapAfterGet(u) EXCEPT ![getSession(u)] =
                IF /\ TextRoute(@) \in {"reading", "listening"}
                   /\ SubState(@, TextRoute(@)).exercise = NoExercise
                  THEN OnNoExercise(@, TextRoute(@))
                  ELSE @]
  /\ LET id == getSession(u)
         session == HeapAfterGet(u)[id]
         route == TextRoute(session)
     IN \/ /\ route = "free"
           /\ CanSpawn
           /\ Spawn([NoTask EXCEPT !.kind = "text", !.pc = "chat", !.user = u,
                       !.sess = id, !.mode = "free",
                       !.level = LevelOrDefault(session)])
           /\ UNCHANGED outcome
        \/ /\ route \in {"reading", "listening"}
           /\ SubState(session, route).exercise # NoExercise
           /\ CanSpawn
           /\ Spawn([NoTask EXCEPT !.kind = "text", !.pc = "check", !.user = u,
                       !.sess = id, !.mode = route,
                       !.level = LevelOrDefault(session),
                       !.ex = SubState(session, route).exercise])
           /\ UNCHANGED outcome
        \/ /\ route \in {"reading", "listening"}
           /\ SubState(session, route).exercise = NoExercise
           /\ Reply(u, AnswerOp(route), "no_exercise")
           /\ UNCHANGED tasks
        \/ /\ route = "reminder"
           /\ Reply(u, "text", "reminder")
           /\ UNCHANGED tasks
        \/ /\ route = "next"
           /\ Reply(u, "text", "not_consumed")
           /\ UNCHANGED tasks
  /\ UNCHANGED <<nextEx, scored, audioVars, ledger, display>>
  /\ Deliver

\* variant: the exercise is cleared once it has been evaluated
FinishExerciseClear(session, mode, score) ==
  CASE mode = "reading" ->
         [ApplyResult(session, score) EXCEPT
            !.reading.state = "idle", !.reading.exercise = NoExercise]
    [] mode = "listening" ->
         [ApplyResult(session, score) EXCEPT
            !.listening.state = "idle", !.listening.exercise = NoExercise]
    [] mode = "speaking" ->
         [ApplyResult(session, score) EXCEPT
            !.speaking.state = "idle", !.speaking.exercise = NoExercise]

\* variant: the total is written from the score alone
FinishExerciseOverwrite(session, mode, score) ==
  CASE mode = "reading" ->
         [session EXCEPT !.reading.state = "idle",
                         !.stats.totalScore = Max(0, NumberOf(score))]
    [] mode = "listening" ->
         [session EXCEPT !.listening.state = "idle",
                         !.stats.totalScore = Max(0, NumberOf(score))]
    [] mode = "speaking" ->
         [session EXCEPT !.speaking.state = "idle",
                         !.stats.totalScore = Max(0, NumberOf(score))]

\* after a successful evaluation: the score is applied when it is a number,
\* then the mode's state is set to idle
FinishExercise(session, mode, score) ==
  CASE mode = "reading" ->
         [ApplyResult(session, score) EXCEPT !.reading.state = "idle"]
    [] mode = "listening" ->
         [ApplyResult(session, score) EXCEPT !.listening.state = "idle"]
    [] mode = "speaking" ->
         [ApplyResult(session, score) EXCEPT !.speaking.state = "idle"]

\* variant: the catch block sets the mode's state to idle
OnEvalErrorIdle(session, mode) ==
  CASE mode = "reading"   -> [session EXCEPT !.reading.state = "idle"]
    [] mode = "listening" -> [session EXCEPT !.listening.state = "idle"]
    [] mode = "speaking"  -> [session EXCEPT !.speaking.state = "idle"]

\* the catch blocks of the answer handlers and of the voice handler
OnEvalError(session, mode) == session

\* handleReadingAnswers / handleListeningAnswers after the reply "I'll check
\* your answers now...": evaluateReadingAnswers is called with the level,
\* the text and the questions the handler read when it was entered
CheckAnswers(t) ==
  /\ tasks[t].pc = "check"
  /\ Resume(t, [tasks[t] EXCEPT !.pc = "eval"])
  /\ UNCHANGED <<sessions, heap, nextEx, scored, outcome, audioVars, ledger, display, events>>

\* evaluateReadingAnswers / evaluateSpeakingResponse returned an object
EvalOk(t, score) ==
  /\ tasks[t].pc = "eval"
  /\ heap' = [heap EXCEPT ![SessionOf(tasks[t])] =
                FinishExercise(@, tasks[t].mode, score)]
  /\ scored' = ScoreCounted(tasks[t].mode, tasks[t].ex, score)
  /\ Finish(t)
  /\ outcome' = [user |-> tasks[t].user, op |-> AnswerOp(tasks[t].mode),
                 res |-> "ok", score |-> score]
  /\ UNCHANGED <<sessions, nextEx, audioVars, ledger, display, events>>

\* the evaluation request failed, its answer was not JSON, or it was null
EvalFail(t) ==
  /\ tasks[t].pc = "eval"
  /\ heap' = [heap EXCEPT ![SessionOf(tasks[t])] = OnEvalError(@, tasks[t].mode)]
  /\ Finish(t)
  /\ Reply(tasks[t].user, AnswerOp(tasks[t].mode), OnError(tasks[t]))
  /\ UNCHANGED <<sessions, nextEx, scored, audioVars, ledger, display, events>>

\* --------------------------------------------------- voice messages
\* variant: a voice message is taken in speaking mode, whatever the state
VoiceRouteAnyState(session) ==
  IF session.practiceType = "free" THEN "free"
  ELSE IF session.practiceType # "speaking" THEN "next"
  ELSE "speaking"

\* the tests of bot.on("voice"), in the order of the code
VoiceRoute(session) ==
  IF session.practiceType = "free" THEN "free"
  ELSE IF session.practiceType # "speaking"
          \/ session.speaking.state # "waiting_for_voice" THEN "next"
  ELSE "speaking"

\* bot.on("voice") up to the call of transcribeAudioFromUrl
Voice(u) ==
  /\ CanGet(u)
  /\ sessions' = SessionsAfterGet(u)
  /\ heap' = HeapAfterGet(u)
  /\ LET id == getSession(u)
         route == VoiceRoute(HeapAfterGet(u)[id])
     IN \/ /\ route \in {"free", "speaking"}
           /\ CanSpawn
           /\ Spawn([NoTask EXCEPT !.kind = "voice", !.pc = "transcribe",
                       !.user = u, !.sess = id, !.mode = route,
                       !.pre = SubState(HeapAfterGet(u)[id], "speaking")])
           /\ UNCHANGED outcome
        \/ /\ route = "next"
           /\ Reply(u, "voice", "not_consumed")
           /\ UNCHANGED tasks
  /\ UNCHANGED <<nextEx, scored, audioVars, ledger, display>>
  /\ Deliver

\* variant: the transcript is not stored before the evaluation
StoreTranscriptLater(session, transcript) == session

\* session.speaking.lastTranscript = transcript
StoreTranscript(session, transcript) ==
  [session EXCEPT !.speaking.lastTranscript = transcript]

\* transcribeAudioFromUrl returned: free mode forwards the transcript to
\* handleFreeChatMessage; speaking mode stores it, reads the level and the
\* exercise of the session and asks for the evaluation
TranscribeOk(t, transcript) ==
  /\ tasks[t].pc = "transcribe"
  /\ LET session == heap[SessionOf(tasks[t])]
     IN IF tasks[t].mode = "free"
          THEN /\ Resume(t, [tasks[t] EXCEPT !.pc = "chat",
                                      !.level = LevelOrDefault(session),
                                      !.tr = transcript])
               /\ UNCHANGED <<heap, outcome>>
          ELSE /\ heap' = [heap EXCEPT ![SessionOf(tasks[t])] =
                             StoreTranscript(@, transcript)]
               /\ IF session.speaking.exercise = NoExercise
                    THEN /\ Finish(t)
                         /\ Reply(tasks[t].user, "voice", OnError(tasks[t]))
                    ELSE /\ Resume(t, [tasks[t] EXCEPT !.pc = "eval",
                                           !.level = LevelOrDefault(session),
                                           !.ex = session.speaking.exercise,
                                           !.tr = transcript])
                         /\ UNCHANGED outcome
  /\ UNCHANGED <<sessions, nextEx, scored, audioVars, ledger, display, events>>

\* transcribeAudioFromUrl threw: the catch block of the voice handler
TranscribeFail(t) ==
  /\ tasks[t].pc = "transcribe"
  /\ Finish(t)
  /\ Reply(tasks[t].user, "voice", OnError(tasks[t]))
  /\ UNCHANGED <<sessions, heap, nextEx, scored, audioVars, ledger, display, events>>

\* ------------------------------------------------------ audio pipeline
CallIds == 1..MaxCalls

\* path.join(tmpDir, `input-${ts}.oga`) and `output-${ts}.mp3`
oggPath(ts) == <<"input", ts>>

mp3Path(ts) == <<"output", ts>>

\* the texts the transcription capability answers with, as character
\* sequences; present is FALSE when the answer has no text field
RawTexts ==
  { [present |-> FALSE, chars |-> << >>],
    [present |-> TRUE, chars |-> << >>],
    [present |-> TRUE, chars |-> <<" ", "a", " ">>],
    [present |-> TRUE, chars |-> <<"a", " ", "b">>] }

RECURSIVE TrimStart(_)
TrimStart(chars) ==
  IF chars # << >> /\ Head(chars) = " " THEN TrimStart(Tail(chars)) ELSE chars

RECURSIVE TrimEnd(_)
TrimEnd(chars) ==
  IF chars # << >> /\ chars[Len(chars)] = " "
    THEN TrimEnd(SubSeq(chars, 1, Len(chars) - 1))
    ELSE chars

\* String.prototype.trim
Trim(chars) == TrimEnd(TrimStart(chars))

\* transcription && transcription.text ? transcription.text : ""
TextOf(transcription) ==
  IF transcription.present /\ transcription.chars # << >>
    THEN transcription.chars
    ELSE << >>

\* Date.now() moves on
Tick ==
  /\ clock < MaxTime
  /\ clock' = clock + 1
  /\ UNCHANGED <<calls, files, botVars, ledger, display, events>>

\* transcribeAudioFromUrl(fileUrl) is called: fetch is awaited
Transcribe(c) ==
  /\ calls[c].pc \in {"free", "returned", "thrown"}
  /\ \E u \in AllUsers :
       calls' = [calls EXCEPT ![c] = [NoCall EXCEPT !.pc = "fetch", !.user = u]]
  /\ UNCHANGED <<files, clock, botVars, ledger, display, events>>

\* fetch answered with a status that is not ok: the function throws
FetchNotOk(c) ==
  /\ calls[c].pc = "fetch"
  /\ calls' = [calls EXCEPT ![c].pc = "thrown"]
  /\ UNCHANGED <<files, clock, botVars, ledger, display, events>>

\* fetch answered ok: the body is read, the directory made, the names are
\* built from Date.now() and writeFile is awaited
FetchOk(c) ==
  /\ calls[c].pc = "fetch"
  /\ calls' = [calls EXCEPT ![c].pc = "write", ![c].ts = clock]
  /\ UNCHANGED <<files, clock, botVars, ledger, display, events>>

\* writeFile(oggPath) is done: ffmpeg is started
WriteDone(c) ==
  /\ calls[c].pc = "write"
  /\ files' = files \cup {oggPath(calls[c].ts)}
  /\ calls' = [calls EXCEPT ![c].pc = "ffmpeg", ![c].oga = TRUE]
  /\ UNCHANGED <<clock, botVars, ledger, display, events>>

\* ffmpeg ended: the mp3 file is written and the transcription is requested
FfmpegEnd(c) ==
  /\ calls[c].pc = "ffmpeg"
  /\ oggPath(calls[c].ts) \in files
  /\ files' = files \cup {mp3Path(calls[c].ts)}
  /\ calls' = [calls EXCEPT ![c].pc = "stt", ![c].mp3 = TRUE]
  /\ UNCHANGED <<clock, botVars, ledger, display, events>>

\* variant: a failing ffmpeg is ignored and the transcription is requested
FfmpegErrorIgnored(c) ==
  /\ calls[c].pc = "ffmpeg"
  /\ calls' = [calls EXCEPT ![c].pc = "stt"]
  /\ UNCHANGED <<files, clock, botVars, ledger, display, events>>

\* ffmpeg reported an error: the promise rejects and the function throws;
\* ffmpeg may have left a part of the output file
FfmpegError(c) ==
  /\ calls[c].pc = "ffmpeg"
  /\ \E partial \in BOOLEAN :
       /\ files' = IF partial THEN files \cup {mp3Path(calls[c].ts)} ELSE files
       /\ calls' = [calls EXCEPT ![c].pc = "thrown", ![c].mp3 = partial]
  /\ UNCHANGED <<clock, botVars, ledger, display, events>>

\* what is left of the tmp directory after the two unlink calls
Cleanup(fs, ts) == fs \ {oggPath(ts), mp3Path(ts)}

\* the transcription capability answered: both files are unlinked and the
\* trimmed text is returned
SttOk(c, transcription) ==
  /\ calls[c].pc = "stt"
  /\ mp3Path(calls[c].ts) \in files
  /\ files' = Cleanup(files, calls[c].ts)
  /\ calls' = [calls EXCEPT ![c].pc = "returned",
                            ![c].text = Trim(TextOf(transcription))]
  /\ UNCHANGED <<clock, botVars, ledger, display, events>>

\* the transcription capability failed, or the mp3 file could not be read:
\* the function throws
SttFail(c) ==
  /\ calls[c].pc = "stt"
  /\ calls' = [calls EXCEPT ![c].pc = "thrown"]
  /\ UNCHANGED <<files, clock, botVars, ledger, display, events>>

NextAudio ==
  \/ Tick
  \/ \E c \in CallIds :
       \/ Transcribe(c)
       \/ FetchNotOk(c)
       \/ FetchOk(c)
       \/ WriteDone(c)
       \/ FfmpegEnd(c)
       \/ FfmpegError(c)
       \/ \E transcription \in RawTexts : SttOk(c, transcription)
       \/ SttFail(c)

SpecAudio == Init /\ [][NextAudio]_vars

\* ------------------------------------------- addScoreToStats on its own
\* the values addScoreToStats is called with: negative, zero and positive
\* numbers, NaN or an infinity, undefined, and a numeric string, which
\* Number() turns into a finite number
ScoreArgs ==
  {Num(-5), Num(-2), Num(0), Num(3), Infinite, Undefined, NumericString(8)}

\* a session whose total is t
SessionWithTotal(t) == [createEmptySession EXCEPT !.stats.totalScore = t]

\* one session with a total of 0..MaxStart, and nothing in flight
InitScore ==
  /\ \E t \in 0..MaxStart :
       /\ heap = <<SessionWithTotal(t)>>
       /\ ledger = [start |-> t, scores |-> << >>]
  /\ sessions = [u \in AllUsers |-> IF u = 1 THEN 1 ELSE 0]
  /\ tasks = [t \in TaskIds |-> NoTask]
  /\ nextEx = 0
  /\ scored = [m \in {"reading", "listening", "speaking"} |->
                 [e \in 1..MaxEx |-> 0]]
  /\ outcome = NoOutcome
  /\ calls = [c \in 1..MaxCalls |-> NoCall]
  /\ files = {}
  /\ clock = 0
  /\ events = 0
  /\ display = NoDisplay

\* addScoreToStats(session, score)
AddScore(score) ==
  /\ Len(ledger.scores) < MaxScores
  /\ heap' = [heap EXCEPT ![1] = addScoreToStats(@, score)]
  /\ ledger' = [ledger EXCEPT !.scores = Append(@, score)]
  /\ UNCHANGED <<sessions, tasks, nextEx, scored, outcome, audioVars, events,
                 display>>

NextScore == \E score \in ScoreArgs : AddScore(score)

SpecScore == InitScore /\ [][NextScore]_vars

\* ------------------------------------------------- progress message
\* Math.max(0, Math.min(500, total))
displayClamp(total) == Max(0, Min(500, total))

\* variant: the bar is cut off instead of rounded
buildProgressBarTrunc(score) ==
  LET s == Max(0, Min(500, score))
      totalBlocks == 10
      filled == (s * totalBlocks) \div 500
  IN [filled |-> filled, empty |-> totalBlocks - filled]

\* buildProgressBar: the numbers of filled and of empty blocks
buildProgressBar(score) ==
  LET s == Max(0, Min(500, score))
      totalBlocks == 10
      filled == MathRound(s * totalBlocks, 500)
  IN [filled |-> filled, empty |-> totalBlocks - filled]

\* variant: the bands are closed at their upper ends
getRamyunLevelMetaClosed(score) ==
  LET s == Max(0, Min(500, score))
  IN IF s <= 100 THEN "Ramyun Mild"
     ELSE IF s <= 200 THEN "Ramyun Original"
     ELSE IF s <= 300 THEN "Ramyun Spicy"
     ELSE IF s <= 400 THEN "Ramyun Very Spicy"
     ELSE "Ramyun Nuclear"

\* getRamyunLevelMeta: the name of the level
getRamyunLevelMeta(score) ==
  LET s == Max(0, Min(500, score))
  IN IF s < 100 THEN "Ramyun Mild"
     ELSE IF s < 200 THEN "Ramyun Original"
     ELSE IF s < 300 THEN "Ramyun Spicy"
     ELSE IF s < 400 THEN "Ramyun Very Spicy"
     ELSE "Ramyun Nuclear"

\* variant: the total is shown as it is stored
ProgressMessageUnclamped(total) ==
  IF total <= 0
    THEN [NoDisplay EXCEPT !.kind = "no_points", !.total = total]
    ELSE [kind |-> "progress", total |-> total, score |-> total,
          filled |-> buildProgressBar(total).filled,
          empty |-> buildProgressBar(total).empty,
          name |-> getRamyunLevelMeta(total)]

\* the message of the progress handler for a stored total
ProgressMessage(total) ==
  IF total <= 0
    THEN [NoDisplay EXCEPT !.kind = "no_points", !.total = total]
    ELSE LET displayScore == displayClamp(total)
         IN [kind |-> "progress", total |-> total, score |-> displayScore,
             filled |-> buildProgressBar(displayScore).filled,
             empty |-> buildProgressBar(displayScore).empty,
             name |-> getRamyunLevelMeta(displayScore)]

\* bot.hears(SHOW_PROGRESS_TEXT)
ShowProgress(u) ==
  /\ CanGet(u)
  /\ sessions' = SessionsAfterGet(u)
  /\ heap' = HeapAfterGet(u)
  /\ display' = ProgressMessage(
                   HeapAfterGet(u)[getSession(u)].stats.totalScore)
  /\ UNCHANGED <<tasks, nextEx, scored, outcome, audioVars, ledger, events>>

\* the scores earned between two progress messages
ProgressScores == {Num(1), Num(7), Num(-3)}

\* one session with a total of 0..MaxShown, and nothing in flight
InitProgress ==
  /\ \E t \in 0..MaxShown :
       /\ heap = <<SessionWithTotal(t)>>
       /\ ledger = [start |-> t, scores |-> << >>]
  /\ sessions = [u \in AllUsers |-> IF u = 1 THEN 1 ELSE 0]
  /\ tasks = [t \in TaskIds |-> NoTask]
  /\ nextEx = 0
  /\ scored = [m \in {"reading", "listening", "speaking"} |->
                 [e \in 1..MaxEx |-> 0]]
  /\ outcome = NoOutcome
  /\ calls = [c \in 1..MaxCalls |-> NoCall]
  /\ files = {}
  /\ clock = 0
  /\ events = 0
  /\ display = NoDisplay

NextProgress ==
  \/ \E score \in ProgressScores : AddScore(score)
  \/ \E u \in Users : ShowProgress(u)

SpecProgress == InitProgress /\ [][NextProgress]_vars

\* ------------------------------------------------------ specification
Next ==
  \/ \E u \in Users :
       \/ Start(u)
       \/ \E lvl \in Levels : LevelSelect(u, lvl)
       \/ ChangeLevel(u)
       \/ ChangeModeText(u)
       \/ ChangeModeInline(u)
       \/ \E type \in PracticeTypes : PracticeChoice(u, type)
       \/ \E mode \in ExerciseModes : NextExercise(u, mode)
       \/ Text(u)
       \/ Voice(u)
  \/ \E t \in TaskIds : StartExercise(t)
  \/ \E t \in TaskIds : GenOk(t)
  \/ \E t \in TaskIds : GenFail(t)
  \/ \E t \in TaskIds : GenNull(t)
  \/ \E t \in TaskIds : TtsOk(t)
  \/ \E t \in TaskIds : TtsFail(t)
  \/ \E t \in TaskIds : ChatDone(t)
  \/ \E t \in TaskIds : CheckAnswers(t)
  \/ \E t \in TaskIds, score \in EvalScores : EvalOk(t, score)
  \/ \E t \in TaskIds : EvalFail(t)
  \/ \E t \in TaskIds, transcript \in Transcripts : TranscribeOk(t, transcript)
  \/ \E t \in TaskIds : TranscribeFail(t)

Spec == Init /\ [][Next]_vars

\* ------------------------------------------------- one event at a time
\* no handler is in flight
Quiet == \A t \in TaskIds : tasks[t].pc = "free"

\* the dispatcher when the events of the user are handled one at a time:
\* an event is delivered only when the handler of the one before has
\* returned
NextSerial ==
  \/ \E u \in Users : Quiet /\ Start(u)
  \/ \E u \in Users, lvl \in Levels : Quiet /\ LevelSelect(u, lvl)
  \/ \E u \in Users : Quiet /\ ChangeLevel(u)
  \/ \E u \in Users : Quiet /\ ChangeModeText(u)
  \/ \E u \in Users : Quiet /\ ChangeModeInline(u)
  \/ \E u \in Users, type \in PracticeTypes : Quiet /\ PracticeChoice(u, type)
  \/ \E u \in Users, mode \in ExerciseModes : Quiet /\ NextExercise(u, mode)
  \/ \E u \in Users : Quiet /\ Text(u)
  \/ \E u \in Users : Quiet /\ Voice(u)
  \/ \E t \in TaskIds : StartExercise(t)
  \/ \E t \in TaskIds : GenOk(t)
  \/ \E t \in TaskIds : GenFail(t)
  \/ \E t \in TaskIds : GenNull(t)
  \/ \E t \in TaskIds : TtsOk(t)
  \/ \E t \in TaskIds : TtsFail(t)
  \/ \E t \in TaskIds : ChatDone(t)
  \/ \E t \in TaskIds : CheckAnswers(t)
  \/ \E t \in TaskIds, score \in EvalScores : EvalOk(t, score)
  \/ \E t \in TaskIds : EvalFail(t)
  \/ \E t \in TaskIds, transcript \in Transcripts : TranscribeOk(t, transcript)
  \/ \E t \in TaskIds : TranscribeFail(t)

SpecSerial == Init /\ [][NextSerial]_vars

\* ------------------------------------------------- a chosen level
\* a user who has chosen level 2, a level that differs from the default:
\* the store after LEVEL_2 of a new user
InitLevel ==
  /\ heap = <<[createEmptySession EXCEPT !.level = "2"]>>
  /\ sessions = [u \in AllUsers |-> IF u = 1 THEN 1 ELSE 0]
  /\ tasks = [t \in TaskIds |-> NoTask]
  /\ nextEx = 0
  /\ scored = [m \in ExerciseModes |-> [e \in 1..MaxEx |-> 0]]
  /\ outcome = NoOutcome
  /\ calls = [c \in CallIds |-> NoCall]
  /\ files = {}
  /\ clock = 0
  /\ events = 0
  /\ ledger = NoLedger
  /\ display = NoDisplay

SpecLevel == InitLevel /\ [][Next]_vars

\* ------------------------------------------------------------ typing
Objects == 1..Len(heap)

SubStates ==
  [state : {"idle", "waiting_for_answers", "waiting_for_voice"},
   exercise : 0..MaxEx]

TypeOK ==
  /\ sessions \in [AllUsers -> 0..MaxObj]
  /\ Len(heap) <= MaxObj
  /\ \A i \in Objects :
       /\ heap[i].level \in Levels \cup {Null}
       /\ heap[i].practiceType \in PracticeTypes \cup {Null}
       /\ heap[i].stats.totalScore \in Int
       /\ \A m \in ExerciseModes : SubState(heap[i], m) \in SubStates
       /\ heap[i].speaking.lastTranscript \in Transcripts \cup {Null}
  /\ \A t \in TaskIds :
       /\ tasks[t].pc \in
            {"free", "start", "gen", "tts", "chat", "check", "eval",
             "transcribe"}
       /\ tasks[t].pc # "free" => tasks[t].sess \in Objects
  /\ nextEx \in 0..MaxEx
  /\ events \in 0..MaxEvents

\* ============================================================ claims

\* C1: two voice messages of one user that overlap in speaking mode are
\* serialized, so that a speaking exercise is scored at most once: no
\* speaking exercise ever has more than one evaluation result added to
\* totalScore.
C1_SpeakingExerciseScoredOnce ==
  \A e \in 1..MaxEx : scored["speaking"][e] <= 1

\* C2: an invocation of transcribeAudioFromUrl that has ended, by return or
\* by throw, has left none of the scratch files it wrote in the tmp
\* directory.
C2_NoScratchFileLeft ==
  \A c \in CallIds :
    calls[c].pc \in {"returned", "thrown"} =>
      /\ calls[c].oga => oggPath(calls[c].ts) \notin files
      /\ calls[c].mp3 => mp3Path(calls[c].ts) \notin files

\* C3: in every session object, a mode whose state is waiting_for_answers
\* or waiting_for_voice has an exercise.
C3_WaitingHasExercise ==
  \A i \in Objects : \A m \in ExerciseModes :
    SubState(heap[i], m).state # "idle"
      => SubState(heap[i], m).exercise # NoExercise

\* C4: totalScore is never negative in any session object, whatever scores
\* the evaluation returns.
C4_TotalScoreNonNegative ==
  \A i \in Objects : heap[i].stats.totalScore >= 0

\* a negative score was applied to a total smaller than its size
C4_Witness ==
  /\ outcome.res = "ok"
  /\ outcome.score = Num(-3)
  /\ \E i \in Objects : heap[i].stats.totalScore = 0

\* the session object a mode selection of user u works on, before the step
SessionBefore(u) == HeapAfterGet(u)[getSession(u)]

\* a step of the mode selection that handler t runs (its start function)
StartStep(t) ==
  \/ StartExercise(t)
  \/ GenOk(t)
  \/ GenFail(t)
  \/ GenNull(t)
  \/ TtsOk(t)
  \/ TtsFail(t)
  \/ ChatDone(t)

\* C5 as stated: selecting mode M sets the states of all other modes to
\* idle and keeps their exercises.
C5_SwitchResetsOthers ==
  [][\A u \in Users : \A type \in PracticeTypes :
       PracticeChoice(u, type) =>
         \A m \in ExerciseModes \ {type} :
           /\ SubState(heap'[getSession(u)], m).state = "idle"
           /\ SubState(heap'[getSession(u)], m).exercise
                = SubState(SessionBefore(u), m).exercise]_vars

\* C5 as amended: selecting mode M stores M as the practice type, and
\* neither the selection nor the start function it runs changes the state
\* or the exercise of any other mode.
C5_SwitchKeepsOthers ==
  [][/\ \A u \in Users : \A type \in PracticeTypes :
          PracticeChoice(u, type) \/ NextExercise(u, type) =>
            /\ heap'[getSession(u)].practiceType = type
            /\ \A m \in ExerciseModes \ {type} :
                 SubState(heap'[getSession(u)], m)
                   = SubState(SessionBefore(u), m)
     /\ \A t \in TaskIds :
          StartStep(t) =>
            \A m \in ExerciseModes \ {tasks[t].mode} :
              SubState(heap'[tasks[t].sess], m)
                = SubState(heap[tasks[t].sess], m)]_vars

\* speaking was selected and started while reading waited for answers, and
\* reading still waits
C5_Witness ==
  \E i \in Objects :
    /\ heap[i].practiceType = "speaking"
    /\ heap[i].speaking.state = "waiting_for_voice"
    /\ heap[i].reading.state = "waiting_for_answers"
    /\ heap[i].reading.exercise # NoExercise

\* C6 as stated: a successful submission with a numeric score s adds exactly
\* s to totalScore, sets the mode's state to idle and keeps its exercise.
C6_ScoreAddedExactly ==
  [][\A t \in TaskIds : \A score \in EvalScores :
       (EvalOk(t, score) /\ TypeOf(score) = "number" /\ IsFinite(score)) =>
         /\ heap'[tasks[t].sess].stats.totalScore
              = heap[tasks[t].sess].stats.totalScore + NumberOf(score)
         /\ SubState(heap'[tasks[t].sess], tasks[t].mode)
              = [state |-> "idle",
                 exercise |->
                   SubState(heap[tasks[t].sess], tasks[t].mode).exercise]]_vars

\* C6 as amended: a successful submission with a numeric score s sets
\* totalScore to max(0, totalScore + s), which is totalScore + s whenever
\* that sum is not negative, sets the mode's state to idle and keeps its
\* exercise.
C6_ScoreAddedFloored ==
  [][\A t \in TaskIds : \A score \in EvalScores :
       (EvalOk(t, score) /\ TypeOf(score) = "number" /\ IsFinite(score)) =>
         /\ heap'[tasks[t].sess].stats.totalScore
              = Max(0, heap[tasks[t].sess].stats.totalScore + NumberOf(score))
         /\ SubState(heap'[tasks[t].sess], tasks[t].mode)
              = [state |-> "idle",
                 exercise |->
                   SubState(heap[tasks[t].sess], tasks[t].mode).exercise]
         /\ heap'[tasks[t].sess].speaking.lastTranscript
              = heap[tasks[t].sess].speaking.lastTranscript]_vars

\* a score of 7 was added to a total of 7 and the exercise is still there
C6_Witness ==
  /\ outcome.res = "ok"
  /\ outcome.op = "handleReadingAnswers"
  /\ outcome.score = Num(7)
  /\ \E i \in Objects :
       /\ heap[i].stats.totalScore = 7
       /\ heap[i].reading.state = "idle"
       /\ heap[i].reading.exercise # NoExercise

\* C7: when the evaluation of reading or listening answers fails, the step
\* changes no session (state, exercise and totalScore stay as they are) and
\* a failure is reported.
C7_EvalFailureKeepsSession ==
  [][\A t \in TaskIds :
       (EvalFail(t) /\ tasks[t].mode \in {"reading", "listening"}) =>
         /\ heap' = heap
         /\ sessions' = sessions
         /\ scored' = scored
         /\ outcome'.op = AnswerOp(tasks[t].mode)
         /\ outcome'.res = "failure"]_vars

\* the evaluation of listening answers failed and the session still waits
\* for answers to its exercise
C7_Witness ==
  /\ outcome.op = "handleListeningAnswers"
  /\ outcome.res = "failure"
  /\ \E i \in Objects :
       /\ heap[i].listening.state = "waiting_for_answers"
       /\ heap[i].listening.exercise # NoExercise
       /\ heap[i].stats.totalScore = 0

\* the score of a well-formed evaluation result: an integer in 1..10
ValidScore(score) ==
  TypeOf(score) = "number" /\ IsFinite(score) /\ NumberOf(score) \in 1..10

\* C8 as stated: an evaluation result whose score is missing, not a number
\* or not in 1..10 is treated as a failure: the state of the mode stays
\* waiting_for_answers and totalScore is unchanged.
C8_MalformedIsFailure ==
  [][\A t \in TaskIds : \A score \in EvalScores :
       (EvalOk(t, score) /\ tasks[t].mode \in {"reading", "listening"}
          /\ ~ValidScore(score)) =>
         /\ SubState(heap'[tasks[t].sess], tasks[t].mode)
              = SubState(heap[tasks[t].sess], tasks[t].mode)
         /\ heap'[tasks[t].sess].stats.totalScore
              = heap[tasks[t].sess].stats.totalScore]_vars

\* C8 as amended: an evaluation result whose score is missing or not of
\* type number leaves totalScore unchanged, but the submission counts as a
\* success: the state of the mode becomes idle and the exercise is kept.  A
\* number outside 1..10 is applied like any other number (floored at zero,
\* ignored when it is not finite).
C8_MalformedIsAccepted ==
  [][\A t \in TaskIds : \A score \in EvalScores :
       (EvalOk(t, score) /\ tasks[t].mode \in {"reading", "listening"}
          /\ ~ValidScore(score)) =>
         /\ SubState(heap'[tasks[t].sess], tasks[t].mode)
              = [state |-> "idle",
                 exercise |->
                   SubState(heap[tasks[t].sess], tasks[t].mode).exercise]
         /\ heap'[tasks[t].sess].stats.totalScore
              = IF TypeOf(score) = "number" /\ IsFinite(score)
                  THEN Max(0, heap[tasks[t].sess].stats.totalScore
                                + NumberOf(score))
                  ELSE heap[tasks[t].sess].stats.totalScore
         /\ outcome'.res = "ok"]_vars

\* a result whose score is the string "8" was accepted: the total is
\* unchanged and the session no longer waits for answers
C8_Witness ==
  /\ outcome.res = "ok"
  /\ outcome.op = "handleReadingAnswers"
  /\ outcome.score = NumericString(8)
  /\ \E i \in Objects :
       /\ heap[i].stats.totalScore = 0
       /\ heap[i].reading.state = "idle"
       /\ heap[i].reading.exercise # NoExercise

\* C9: when startReadingExercise or startSpeakingExercise reports a failure
\* of the generation (the request failed, or its answer was not an
\* exercise), no step of the call has changed any session: state, exercise
\* and lastTranscript are what they were before the call.
C9_StartFailureKeepsSession ==
  [][\A t \in TaskIds :
       /\ (StartExercise(t) /\ tasks[t].mode \in {"reading", "speaking"})
            => heap' = heap /\ sessions' = sessions
       /\ ((GenFail(t) \/ GenNull(t))
             /\ tasks[t].mode \in {"reading", "speaking"}) =>
            /\ heap' = heap
            /\ sessions' = sessions
            /\ outcome'.op = StartOp(tasks[t].mode)
            /\ outcome'.res = "failure"]_vars

\* C10: when startListeningExercise fails, also when the exercise was
\* generated and the speech synthesis failed, the state and the exercise of
\* listening are what they were when the function was entered.
C10_ListeningFailureKeepsSession ==
  [][\A t \in TaskIds :
       (TtsFail(t) \/ (GenFail(t) /\ tasks[t].mode = "listening")) =>
         /\ heap'[tasks[t].sess].listening = tasks[t].pre
         /\ outcome'.res = "failure"]_vars

\* C11: in speaking mode the step that receives the transcript stores it in
\* speaking.lastTranscript before it requests the evaluation, and a failing
\* evaluation changes no session: lastTranscript, the state
\* waiting_for_voice, the exercise and totalScore are what they were when
\* the evaluation was requested, and a failure is reported.
C11_TranscriptKeptOnFailure ==
  [][\A t \in TaskIds :
       /\ \A transcript \in Transcripts :
            (TranscribeOk(t, transcript) /\ tasks[t].mode = "speaking") =>
              /\ heap'[tasks[t].sess]
                   = [heap[tasks[t].sess] EXCEPT
                        !.speaking.lastTranscript = transcript]
              /\ tasks'[t].pc = "eval" => tasks'[t].tr = transcript
       /\ (EvalFail(t) /\ tasks[t].mode = "speaking") =>
            /\ heap' = heap
            /\ sessions' = sessions
            /\ scored' = scored
            /\ outcome'.op = "voice"
            /\ outcome'.res = "failure"]_vars

\* the only voice message of the run was transcribed and its evaluation
\* failed: the transcript is stored and the session still waits for a voice
\* message to the same exercise
C11_Witness ==
  /\ events = 2
  /\ \A t \in TaskIds : tasks[t].pc = "free"
  /\ outcome.op = "voice"
  /\ outcome.res = "failure"
  /\ \E i \in Objects :
       /\ heap[i].speaking.lastTranscript = "annyeong"
       /\ heap[i].speaking.state = "waiting_for_voice"
       /\ heap[i].speaking.exercise # NoExercise
       /\ heap[i].stats.totalScore = 0

\* C12: answers sent for a mode whose exercise is none are answered with the
\* no-active-exercise reply: the evaluation is not requested (no handler is
\* left suspended), and the mode's state, its exercise and totalScore, like
\* every other field of the session, are unchanged.
C12_NoExerciseNoEvaluation ==
  [][\A u \in Users :
       (/\ Text(u)
        /\ TextRoute(SessionBefore(u)) \in {"reading", "listening"}
        /\ SubState(SessionBefore(u), TextRoute(SessionBefore(u))).exercise
             = NoExercise) =>
         /\ tasks' = tasks
         /\ scored' = scored
         /\ heap'[getSession(u)] = SessionBefore(u)
         /\ outcome'.op = AnswerOp(TextRoute(SessionBefore(u)))
         /\ outcome'.res = "no_exercise"]_vars

\* answers were sent while listening waited for answers without an exercise,
\* and were refused
C12_Witness ==
  /\ outcome.op = "handleListeningAnswers"
  /\ outcome.res = "no_exercise"
  /\ \A t \in TaskIds : tasks[t].pc = "free"
  /\ \E i \in Objects :
       /\ heap[i].listening.state = "waiting_for_answers"
       /\ heap[i].listening.exercise = NoExercise
       /\ heap[i].stats.totalScore = 0

\* the handlers an event has started in this step
Started == {t \in TaskIds : tasks[t].pc = "free" /\ tasks'[t].pc # "free"}

\* the handlers that were already running are not touched by this step
RunningKept == \A t \in TaskIds : tasks[t].pc # "free" => tasks'[t] = tasks[t]

C14_VoiceRouting ==
  [][/\ \A u \in Users :
          Voice(u) =>
            LET s == SessionBefore(u)
                id == getSession(u)
            IN /\ heap'[id] = s
               /\ RunningKept
               /\ IF \/ s.practiceType = "free"
                     \/ /\ s.practiceType = "speaking"
                        /\ s.speaking.state = "waiting_for_voice"
                    THEN /\ Cardinality(Started) = 1
                         /\ \A t \in Started :
                              /\ tasks'[t].pc = "transcribe"
                              /\ tasks'[t].mode = s.practiceType
                              /\ tasks'[t].sess = id
                    ELSE /\ Started = {}
                         /\ outcome'.res = "not_consumed"
     /\ \A t \in TaskIds : \A transcript \in Transcripts :
          TranscribeOk(t, transcript) =>
            /\ tasks[t].mode = "free" =>
                 tasks'[t].pc = "chat" /\ tasks'[t].tr = transcript
            /\ tasks[t].mode = "speaking" /\ tasks'[t].pc # "free" =>
                 tasks'[t].pc = "eval" /\ tasks'[t].tr = transcript]_vars

\* a voice message arrived in speaking mode after the exercise had been
\* evaluated (state idle): it was not consumed
C14_Witness ==
  /\ outcome.op = "voice"
  /\ outcome.res = "not_consumed"
  /\ \A t \in TaskIds : tasks[t].pc = "free"
  /\ \E u \in Users :
       /\ HasSession(u)
       /\ heap[sessions[u]].practiceType = "speaking"
       /\ heap[sessions[u]].speaking.state = "idle"
       /\ heap[sessions[u]].speaking.exercise # NoExercise

\* the external calls a start function of the mode may be suspended at
StartCalls(mode) ==
  CASE mode = "free"      -> {"chat"}
    [] mode = "listening" -> {"gen", "tts"}
    [] OTHER              -> {"gen"}

\* C15: selecting a mode stores it as the practice type and starts one
\* handler, which runs the start function of that mode and of no other;
\* no step of the start function, whether it succeeds or fails, changes the
\* practice type or the state or exercise of another mode.
C15_ModeSelected ==
  [][/\ \A u \in Users : \A type \in PracticeTypes :
          PracticeChoice(u, type) \/ NextExercise(u, type) =>
            /\ heap'[getSession(u)].practiceType = type
            /\ RunningKept
            /\ Cardinality(Started) = 1
            /\ \A t \in Started :
                 /\ tasks'[t].pc = "start"
                 /\ tasks'[t].mode = type
                 /\ tasks'[t].sess = getSession(u)
     /\ \A t \in TaskIds :
          (StartStep(t) /\ tasks[t].kind = "select") =>
            /\ heap'[tasks[t].sess].practiceType
                 = heap[tasks[t].sess].practiceType
            /\ \A m \in ExerciseModes \ {tasks[t].mode} :
                 SubState(heap'[tasks[t].sess], m)
                   = SubState(heap[tasks[t].sess], m)
            /\ IF tasks'[t].pc = "free"
                 THEN /\ outcome'.op = StartOp(tasks[t].mode)
                      /\ outcome'.user = tasks[t].user
                 ELSE /\ tasks'[t].mode = tasks[t].mode
                      /\ tasks'[t].pc \in StartCalls(tasks[t].mode)]_vars

\* speaking was selected after the level, its start failed, and the practice
\* type is speaking
C15_Witness ==
  /\ outcome.op = "startSpeakingExercise"
  /\ outcome.res = "failure"
  /\ \A t \in TaskIds : tasks[t].pc = "free"
  /\ \E u \in Users :
       /\ HasSession(u)
       /\ heap[sessions[u]].level = "2"
       /\ heap[sessions[u]].practiceType = "speaking"
       /\ heap[sessions[u]].speaking.state = "idle"

\* C16: no step of startFreeChat or of handleFreeChatMessage (for a text or
\* for a transcribed voice message), whether the conversation answers or
\* fails, changes a field of a session: level, practice type, totalScore,
\* and the state, exercise and lastTranscript of the three modes.
C16_FreeChatKeepsSession ==
  [][/\ \A t \in TaskIds :
          (/\ tasks[t].mode = "free"
           /\ \/ StartExercise(t)
              \/ ChatDone(t)
              \/ TranscribeFail(t)
              \/ \E transcript \in Transcripts : TranscribeOk(t, transcript)) =>
            heap' = heap /\ sessions' = sessions /\ scored' = scored
     /\ \A u \in Users :
          ((Text(u) \/ Voice(u)) /\ SessionBefore(u).practiceType = "free") =>
            heap'[getSession(u)] = SessionBefore(u) /\ scored' = scored]_vars

\* the conversation answered a text while reading still waited for answers
\* to its exercise
C16_Witness ==
  /\ outcome.op = "handleFreeChatMessage"
  /\ \A t \in TaskIds : tasks[t].pc = "free"
  /\ \E u \in Users :
       /\ HasSession(u)
       /\ heap[sessions[u]].practiceType = "free"
       /\ heap[sessions[u]].reading.state = "waiting_for_answers"
       /\ heap[sessions[u]].reading.exercise # NoExercise

\* the session createEmptySession is to return: no level, no practice type,
\* a total of 0, the three modes idle with no exercise, no transcript
FreshDefault ==
  [ level        |-> Null,
    practiceType |-> Null,
    stats        |-> [totalScore |-> 0],
    reading      |-> [state |-> "idle", exercise |-> NoExercise],
    listening    |-> [state |-> "idle", exercise |-> NoExercise],
    speaking     |-> [state |-> "idle", exercise |-> NoExercise,
                      lastTranscript |-> Null] ]

\* a handler of user u that calls getSession(userId) first
Lookup(u) ==
  \/ \E lvl \in Levels : LevelSelect(u, lvl)
  \/ ChangeLevel(u)
  \/ ChangeModeText(u)
  \/ ChangeModeInline(u)
  \/ \E type \in PracticeTypes : PracticeChoice(u, type)
  \/ \E mode \in ExerciseModes : NextExercise(u, mode)
  \/ Text(u)
  \/ Voice(u)

\* the objects that existed before the step are left as they were
OldObjectsKept == \A i \in 1..Len(heap) : heap'[i] = heap[i]

\* C17: a lookup for a user with no entry creates one new object and stores
\* it; the object is the fresh default (seen where the handler only reads
\* it).  A lookup for a user with an entry returns the stored object: the
\* store is unchanged, no object is created, and the lookup itself changes
\* nothing, so that a level set through an earlier lookup is what a later
\* handler reads.
C17_GetCreatesOrReturns ==
  [][\A u \in Users :
       /\ Lookup(u) =>
            IF sessions[u] = 0
              THEN /\ sessions' = [sessions EXCEPT ![u] = Len(heap) + 1]
                   /\ Len(heap') = Len(heap) + 1
                   /\ OldObjectsKept
              ELSE /\ sessions' = sessions
                   /\ Len(heap') = Len(heap)
                   /\ \A i \in 1..Len(heap) :
                        i # sessions[u] => heap'[i] = heap[i]
       /\ ChangeModeText(u) =>
            /\ IF sessions[u] = 0
                 THEN heap'[sessions'[u]] = FreshDefault
                 ELSE heap' = heap
            /\ outcome'.res = "ok"
                 <=> (sessions[u] # 0 /\ heap[sessions[u]].level # Null)]_vars

\* the level was chosen through the first lookup, which created the session,
\* and the menu handler found it through the next one, in the same object
C17_Witness ==
  /\ outcome.op = "changeMode"
  /\ outcome.res = "ok"
  /\ Len(heap) = 1
  /\ \E u \in Users : sessions[u] = 1 /\ heap[1].level = "2"

\* C18: the start command, whatever the session of the user was, stores for
\* the user a new object that is the fresh default in every field; the
\* objects that existed, and the handlers in flight, are left as they were.
C18_ResetStoresFresh ==
  [][\A u \in Users :
       Start(u) =>
         /\ sessions' = [sessions EXCEPT ![u] = Len(heap) + 1]
         /\ Len(heap') = Len(heap) + 1
         /\ heap'[sessions'[u]] = FreshDefault
         /\ OldObjectsKept
         /\ tasks' = tasks]_vars

\* the user had a level, a practice type, an evaluated exercise and a score
\* of 7, and sent the start command
C18_Witness ==
  /\ outcome.op = "start"
  /\ Len(heap) = 2
  /\ heap[1].stats.totalScore = 7
  /\ heap[1].practiceType = "reading"
  /\ heap[1].reading.exercise # NoExercise
  /\ \E u \in Users : sessions[u] = 2 /\ heap[2] = FreshDefault

\* C19: addScoreToStats sets the total to max(0, total + delta) when delta
\* (as a number) is finite, so that a delta of -5 on a total of 0 gives 0,
\* and leaves the total as it is when delta is NaN, an infinity or
\* undefined.
C19_ApplyDelta ==
  [][\A score \in ScoreArgs :
       AddScore(score) =>
         heap'[1].stats.totalScore
           = IF IsFinite(score)
               THEN Max(0, heap[1].stats.totalScore + NumberOf(score))
               ELSE heap[1].stats.totalScore]_vars

\* -5 was applied to a total of 0, then NaN
C19_Witness ==
  /\ ledger = [start |-> 0, scores |-> <<Num(-5), Infinite>>]
  /\ heap[1].stats.totalScore = 0

\* C20: for a total t >= 0 and integers d1, d2 with t + d1 >= 0 and
\* t + d1 + d2 >= 0, applying d1 and then d2 gives what applying d1 + d2
\* gives.
C20_Additive ==
  (/\ Len(ledger.scores) = 2
   /\ \A k \in 1..2 :
        TypeOf(ledger.scores[k]) = "number" /\ IsFinite(ledger.scores[k])
   /\ ledger.start + NumberOf(ledger.scores[1]) >= 0
   /\ ledger.start + NumberOf(ledger.scores[1])
        + NumberOf(ledger.scores[2]) >= 0) =>
    heap[1] = addScoreToStats(
                SessionWithTotal(ledger.start),
                Num(NumberOf(ledger.scores[1]) + NumberOf(ledger.scores[2])))

\* -2 and then 3 were applied to a total of 2
C20_Witness ==
  /\ ledger = [start |-> 2, scores |-> <<Num(-2), Num(3)>>]
  /\ heap[1].stats.totalScore = 3

\* the five levels, from the lowest band to the highest
TierNames ==
  <<"Ramyun Mild", "Ramyun Original", "Ramyun Spicy", "Ramyun Very Spicy",
    "Ramyun Nuclear">>

\* C21: the level shown for a displayed score is the one of its band, with
\* the bands 0..99, 100..199, 200..299, 300..399 and 400..500, so that 99
\* and 100 (199 and 200, 299 and 300, 399 and 400) get different levels and
\* 400 and 500 the same; a stored total above 500 is shown with the highest
\* level.
C21_TierBands ==
  /\ getRamyunLevelMeta(0) = TierNames[1]
  /\ display.kind = "progress" =>
       /\ \E k \in 1..5 :
            /\ display.name = TierNames[k]
            /\ display.score >= 100 * (k - 1)
            /\ IF k = 5 THEN display.score <= 500
                        ELSE display.score < 100 * k
       /\ display.total > 500 => display.name = TierNames[5]

\* a total of 503 was shown with the highest level
C21_Witness ==
  /\ display.kind = "progress"
  /\ display.total = 503
  /\ display.name = "Ramyun Nuclear"

\* C22: the bar of a displayed score has filled = round(score / 500 * 10)
\* blocks, the integer nearest to score / 50, and empty = 10 - filled, so
\* that filled + empty = 10 and 0 <= filled <= 10; a score of 0 gives
\* (0, 10), 250 gives (5, 5) and 500 gives (10, 0).
C22_ProgressBar ==
  /\ buildProgressBar(0) = [filled |-> 0, empty |-> 10]
  /\ display.kind = "progress" =>
       /\ display.filled \in 0..10
       /\ display.empty = 10 - display.filled
       /\ 2 * (10 * display.score - 500 * display.filled) <= 500
       /\ 2 * (500 * display.filled - 10 * display.score) <= 500
       /\ display.score = 250 => display.filled = 5 /\ display.empty = 5
       /\ display.score = 500 => display.filled = 10 /\ display.empty = 0

\* a total of 250 was shown with five filled and five empty blocks
C22_Witness ==
  /\ display.kind = "progress"
  /\ display.total = 250
  /\ display.filled = 5
  /\ display.empty = 5

\* C23: the score shown is min(500, max(0, total)) of the stored total, it
\* lies in 0..500, and of two messages in a row the one built from the
\* larger total does not show the smaller score; showing the progress
\* leaves the stored total as it is, and adding a score is not capped at
\* 500.
C23_DisplayClamp ==
  [][/\ \A u \in Users :
          (ShowProgress(u) /\ display'.kind = "progress") =>
            /\ display'.total = heap[sessions[u]].stats.totalScore
            /\ display'.score
                 = (IF display'.total > 500 THEN 500
                    ELSE IF display'.total < 0 THEN 0 ELSE display'.total)
            /\ display'.score \in 0..500
            /\ heap' = heap
            /\ (display.kind = "progress"
                  /\ display.total <= display'.total) =>
                 display.score <= display'.score
            /\ (display.kind = "progress"
                  /\ display.total >= display'.total) =>
                 display.score >= display'.score
     /\ \A score \in ProgressScores :
          (AddScore(score) /\ NumberOf(score) >= 0) =>
            heap'[1].stats.totalScore
              = heap[1].stats.totalScore + NumberOf(score)]_vars

\* 7 was added to a stored total of 500: the total is 507 and is shown
\* as 500
C23_Witness ==
  /\ ledger = [start |-> 500, scores |-> <<Num(7)>>]
  /\ heap[1].stats.totalScore = 507
  /\ display.kind = "progress"
  /\ display.total = 507
  /\ display.score = 500

\* the invocations that have built their scratch names and not yet ended
Working == {c \in CallIds : calls[c].pc \in {"write", "ffmpeg", "stt"}}

\* C24: two invocations of transcribeAudioFromUrl that are under way at the
\* same time never have the same scratch file names.
C24_ScratchNamesDistinct ==
  \A c1, c2 \in Working :
    c1 # c2 =>
      /\ oggPath(calls[c1].ts) # oggPath(calls[c2].ts)
      /\ mp3Path(calls[c1].ts) # mp3Path(calls[c2].ts)

\* a step of invocation c
CallStep(c) ==
  \/ Transcribe(c)
  \/ FetchNotOk(c)
  \/ FetchOk(c)
  \/ WriteDone(c)
  \/ FfmpegEnd(c)
  \/ FfmpegError(c)
  \/ \E transcription \in RawTexts : SttOk(c, transcription)
  \/ SttFail(c)

\* C25: a step taken for a voice message of user A leaves everything the
\* handler of another user B depends on as it is; for B's transcription
\* under way that is its scratch files: none of them appears or disappears
\* in a step of A's.
C25_OtherUserUndisturbed ==
  [][\A c1, c2 \in CallIds :
       (/\ CallStep(c1)
        /\ calls[c2].pc \in {"write", "ffmpeg", "stt"}
        /\ calls[c1].user # 0
        /\ calls[c2].user # calls[c1].user) =>
         /\ oggPath(calls[c2].ts) \in files'
              <=> oggPath(calls[c2].ts) \in files
         /\ mp3Path(calls[c2].ts) \in files'
              <=> mp3Path(calls[c2].ts) \in files]_vars

\* C27: transcribeAudioFromUrl goes through fetch, write, ffmpeg and the
\* transcription in this order: a download status that is not ok ends the
\* call before a scratch file exists; a failing ffmpeg ends the call and the
\* transcription is not requested; the transcription is requested only by
\* the step in which ffmpeg ended, with the mp3 file written.
C27_StepOrder ==
  [][\A c \in CallIds :
       /\ FetchNotOk(c) =>
            /\ calls'[c].pc = "thrown"
            /\ ~calls'[c].oga /\ ~calls'[c].mp3
            /\ files' = files
       /\ FfmpegError(c) => calls'[c].pc = "thrown"
       /\ (calls'[c].pc = "stt" /\ calls[c].pc # "stt") =>
            /\ calls[c].pc = "ffmpeg"
            /\ calls'[c].oga /\ calls'[c].mp3
            /\ mp3Path(calls[c].ts) \in files'
       /\ (calls'[c].pc = "ffmpeg" /\ calls[c].pc # "ffmpeg") =>
            calls[c].pc = "write" /\ oggPath(calls[c].ts) \in files'
       /\ (calls'[c].pc = "write" /\ calls[c].pc # "write") =>
            calls[c].pc = "fetch"
       /\ (calls'[c].pc = "returned" /\ calls[c].pc # "returned") =>
            calls[c].pc = "stt"]_vars

\* one invocation ended at the download with no scratch file, another at
\* ffmpeg with its input written
C27_Witness ==
  \E c1, c2 \in CallIds :
    /\ calls[c1].pc = "thrown" /\ ~calls[c1].oga /\ ~calls[c1].mp3
    /\ calls[c2].pc = "thrown" /\ calls[c2].oga /\ ~calls[c2].mp3
    /\ files = {oggPath(calls[c2].ts)}

\* a step in which a request of handler t failed
FailStep(t) ==
  \/ GenFail(t)
  \/ GenNull(t)
  \/ TtsFail(t)
  \/ EvalFail(t)
  \/ TranscribeFail(t)

\* C26: a failure of the generation, the speech synthesis, the evaluation,
\* the conversation or the transcription in a handler of a mode selection,
\* a text or a voice message ends in the catch block of that handler: the
\* handler sends the failure reply to its user and returns; no error leaves
\* a handler.
C26_ErrorsCaught ==
  [][\A t \in TaskIds :
       /\ FailStep(t) =>
            /\ tasks'[t] = NoTask
            /\ outcome'.user = tasks[t].user
            /\ outcome'.res = "failure"
       /\ ChatDone(t) =>
            /\ tasks'[t] = NoTask
            /\ outcome'.user = tasks[t].user
            /\ outcome'.res \in {"ok", "failure"}
       /\ \A transcript \in Transcripts :
            (TranscribeOk(t, transcript) /\ tasks'[t].pc = "free") =>
              outcome'.user = tasks[t].user /\ outcome'.res = "failure"]_vars

\* the conversation failed on the transcript of a voice message in free
\* mode, and the user got the failure reply
C26_Witness ==
  /\ outcome.op = "handleFreeChatMessage"
  /\ outcome.res = "failure"
  /\ events = 2
  /\ \A t \in TaskIds : tasks[t].pc = "free"
  /\ \E u \in Users :
       HasSession(u) /\ heap[sessions[u]].practiceType = "free"

\* C28: the total of a session object changes only in the step in which an
\* evaluation result is applied to that object, and that step sets it to
\* max(0, total + score) of the total the object has at that moment,
\* whatever other handlers of the user are suspended: the total is the
\* floored running sum of the scores applied, and no applied score is lost.
C28_ScoreAtomic ==
  [][/\ \A i \in Objects :
          heap'[i].stats.totalScore # heap[i].stats.totalScore =>
            \E t \in TaskIds : \E score \in EvalScores :
              /\ EvalOk(t, score)
              /\ tasks[t].sess = i
              /\ TypeOf(score) = "number" /\ IsFinite(score)
     /\ \A t \in TaskIds : \A score \in EvalScores :
          EvalOk(t, score) =>
            heap'[tasks[t].sess].stats.totalScore
              = IF TypeOf(score) = "number" /\ IsFinite(score)
                  THEN Max(0, heap[tasks[t].sess].stats.totalScore
                                + NumberOf(score))
                  ELSE heap[tasks[t].sess].stats.totalScore]_vars

\* two submissions for one reading exercise overlapped, each was scored 7,
\* and the total is 14
C28_Witness ==
  /\ \A t \in TaskIds : tasks[t].pc = "free"
  /\ \E e \in 1..MaxEx : scored["reading"][e] = 2
  /\ \E i \in Objects : heap[i].stats.totalScore = 14

\* a step of handler t
TaskStep(t) ==
  \/ StartStep(t)
  \/ CheckAnswers(t)
  \/ \E score \in EvalScores : EvalOk(t, score)
  \/ EvalFail(t)
  \/ \E transcript \in Transcripts : TranscribeOk(t, transcript)
  \/ TranscribeFail(t)

\* C29: a handler that was suspended when the start command replaced the
\* session of its user goes on with the object it holds: none of its steps
\* changes the store or any other object, so the fresh session stays as the
\* reset (and the events after it) left it.
C29_ResetNotUndone ==
  [][\A t \in TaskIds :
       TaskStep(t) =>
         /\ sessions' = sessions
         /\ Len(heap') = Len(heap)
         /\ \A i \in Objects : i # tasks[t].sess => heap'[i] = heap[i]]_vars

\* the answers were scored 7 after the start command had replaced the
\* session: the score went to the old object and the stored one is fresh
C29_Witness ==
  /\ outcome.op = "handleReadingAnswers"
  /\ outcome.res = "ok"
  /\ outcome.score = Num(7)
  /\ Len(heap) = 2
  /\ heap[1].stats.totalScore = 7
  /\ heap[1].reading.state = "idle"
  /\ \E u \in Users : sessions[u] = 2 /\ heap[2] = FreshDefault

\* C30: the evaluation of a voice message in speaking mode is requested for
\* the exercise the session held when the message passed the
\* waiting_for_voice test.
C30_EvaluatedAgainstCheckedExercise ==
  \A t \in TaskIds :
    (tasks[t].kind = "voice" /\ tasks[t].mode = "speaking"
       /\ tasks[t].pc = "eval") =>
      tasks[t].ex = tasks[t].pre.exercise

\* the exercise the mode held when the submission of handler task passed
\* the test of the mode's state: the answer handlers read it at entry, the
\* voice handler was dispatched while the session held it
DispatchedAgainst(task) ==
  IF task.kind = "voice" THEN task.pre.exercise ELSE task.ex

\* C31: the successful evaluation of a submission that was dispatched
\* against an exercise the mode no longer holds (a start stored a new one in
\* the meantime) leaves the state of the mode as it is: the new exercise
\* stays open.
C31_LateSubmissionKeepsNewExercise ==
  [][\A t \in TaskIds : \A score \in EvalScores :
       (/\ EvalOk(t, score)
        /\ SubState(heap[tasks[t].sess], tasks[t].mode).exercise
             # DispatchedAgainst(tasks[t])) =>
         SubState(heap'[tasks[t].sess], tasks[t].mode).state
           = SubState(heap[tasks[t].sess], tasks[t].mode).state]_vars

\* C32: when the events of a user are handled one at a time, no exercise is
\* added to the total more than once, and no evaluation is requested for an
\* exercise that has been added to the total: after the successful
\* submission the state of the mode is idle, and texts and voice messages
\* are not taken as submissions until a start stores a new exercise.
C32_SerialScoredOnce ==
  /\ \A m \in ExerciseModes : \A e \in 1..MaxEx : scored[m][e] <= 1
  /\ \A t \in TaskIds :
       tasks[t].pc \in {"check", "eval"} =>
         scored[tasks[t].mode][tasks[t].ex] = 0

\* the speaking exercise was scored, and the next voice message of the user
\* was not consumed
C32_Witness ==
  /\ Quiet
  /\ events = 3
  /\ outcome.op = "voice"
  /\ outcome.res = "not_consumed"
  /\ \E e \in 1..MaxEx : scored["speaking"][e] = 1
  /\ \E u \in Users :
       /\ HasSession(u)
       /\ heap[sessions[u]].practiceType = "speaking"
       /\ heap[sessions[u]].speaking.state = "idle"
       /\ heap[sessions[u]].stats.totalScore > 0

\* handler t sends a request to the generation, the conversation or the
\* evaluation in this step
Requests(t) ==
  /\ tasks'[t].pc \in {"gen", "chat", "eval"}
  /\ tasks'[t].pc # tasks[t].pc

\* handler t reads session.level || "1" in this step
ReadsLevel(t) ==
  /\ tasks'[t].pc \in {"gen", "chat", "check", "eval"}
  /\ tasks[t].pc \in {"free", "start", "transcribe"}

\* C33 as stated: every request carries a level of 1..6, and when the
\* session has no level at the time of the request, the request carries 1.
C33_LevelAtRequest ==
  [][\A t \in TaskIds :
       Requests(t) =>
         /\ tasks'[t].level \in Levels
         /\ heap'[tasks'[t].sess].level = Null => tasks'[t].level = "1"]_vars

\* C33, amended: every request carries a level of 1..6, which is the level
\* of the session when the handler read it, or 1 when the session had no
\* level then.  The start functions, the conversation and the voice handler
\* read it in the step that sends the request; the answer handlers read it
\* when they are entered and send a reply before the request, and a level
\* changed or cleared in between does not reach the request.
C33_LevelAsRead ==
  [][\A t \in TaskIds :
       /\ ReadsLevel(t) =>
            tasks'[t].level = IF heap'[tasks'[t].sess].level = Null
                                THEN "1"
                                ELSE heap'[tasks'[t].sess].level
       /\ CheckAnswers(t) => tasks'[t].level = tasks[t].level
       /\ Requests(t) => tasks'[t].level \in Levels]_vars

\* the evaluation of the answers was requested with level 2 after the
\* change-difficulty command had cleared the level of the session
C33_Witness ==
  \E t \in TaskIds :
    /\ tasks[t].kind = "text"
    /\ tasks[t].pc = "eval"
    /\ tasks[t].level = "2"
    /\ heap[tasks[t].sess].level = Null
    /\ outcome.op = "changeLevel"

====
